---- MODULE Spec2Model ----
(***************************************************************************)
(* Video Downloader backend (src/Node.js): an Express server with four     *)
(* POST routes (YouTube info/download, Instagram info/download) and a GET  *)
(* /health route.  Every handler is an async function: the code between    *)
(* two awaits runs to completion on the event loop, so each action below   *)
(* is one such synchronous segment.  The extraction libraries, fetch and   *)
(* the media stream are the environment: their results are inputs.         *)
(***************************************************************************)
EXTENDS Integers, Sequences, FiniteSets, TLC

\* ytInfo, igInfo, ytDl, igDl: the request each route is handling (its position
\* in the handler, its body, its response object); one request per route at a
\* time.  done: the exchange completed by the latest step, if it completed one.
VARIABLES ytInfo, igInfo, ytDl, igDl, done

vars == <<ytInfo, igInfo, ytDl, igDl, done>>

(* ------------------------------ bounds --------------------------------- *)
\* formats in a getInfo result when the YouTube info route is explored alone
MaxFormats == 4
\* formats in a getInfo result when several routes are in use
MaxListed == 2
\* chunks a media stream delivers before it ends or fails
MaxChunks == 2
\* requests being handled at the same time
MaxInFlight == 2
\* entries of an Instagram url_list
MaxUrls == 3

(* --------------------------- JavaScript values ------------------------- *)
\* A JavaScript string is the sequence of its UTF-16 code units, which is what
\* the regular expressions, parseInt and the header check of Node look at.
\* The printable ASCII characters in code order, U+0020..U+005F and U+0061..U+007E
AsciiLow == " !\"#$%&'()*+,-./0123456789:;<=>?@ABCDEFGHIJKLMNOPQRSTUVWXYZ[\\]^_"
AsciiHigh == "abcdefghijklmnopqrstuvwxyz{|}~"

Char(s, i) == SubSeq(s, i, i)

\* the code unit of a printable ASCII character
CodeOf(c) ==
  IF \E n \in 1..Len(AsciiLow) : Char(AsciiLow, n) = c
  THEN 31 + CHOOSE n \in 1..Len(AsciiLow) : Char(AsciiLow, n) = c
  ELSE 96 + CHOOSE n \in 1..Len(AsciiHigh) : Char(AsciiHigh, n) = c

\* the code units of a string literal
Codes(text) == [i \in 1..Len(text) |-> CodeOf(Char(text, i))]

Undefined == [t |-> "undefined"]
Null == [t |-> "null"]
\* a string value; s is its sequence of code units
Str(s) == [t |-> "string", s |-> s]
Num(n) == [t |-> "number", nan |-> FALSE, n |-> n]
NaN == [t |-> "number", nan |-> TRUE, n |-> 0]
\* an array is an object: ref is its identity, a its elements
Arr(ref, a) == [t |-> "array", ref |-> ref, a |-> a]

\* ToBoolean, as applied by !x and x || y
Truthy(v) ==
  CASE v.t = "undefined" -> FALSE
    [] v.t = "null" -> FALSE
    [] v.t = "string" -> Len(v.s) # 0
    [] v.t = "number" -> ~v.nan /\ v.n # 0
    [] OTHER -> TRUE

\* a === b: primitives by value (NaN equals nothing), objects by identity
StrictEq(a, b) ==
  /\ a.t = b.t
  /\ CASE a.t \in {"undefined", "null"} -> TRUE
       [] a.t = "string" -> a.s = b.s
       [] a.t = "number" -> ~a.nan /\ ~b.nan /\ a.n = b.n
       [] OTHER -> a.ref = b.ref

\* a || b
Or(a, b) == IF Truthy(a) THEN a ELSE b

\* String.prototype.includes
StringIncludes(s, needle) ==
  \E i \in 1..(Len(s) - Len(needle) + 1) : SubSeq(s, i, i + Len(needle) - 1) = needle

\* 0-9, a-z, A-Z
Digits == 48..57
Lower == 97..122
Upper == 65..90
\* the class \w: letters, digits and the underscore
WordChars == Digits \cup Lower \cup Upper \cup {95}
\* the class \s, which is also the white space parseInt skips: tab, line feed,
\* vertical tab, form feed, carriage return, space, U+00A0, U+1680,
\* U+2000..U+200A, U+2028, U+2029, U+202F, U+205F, U+3000, U+FEFF
SpaceChars ==
  (9..13) \cup {32, 160, 5760} \cup (8192..8202) \cup {8232, 8233, 8239, 8287, 12288, 65279}

\* the digits of a radix: 0-9, and a-f, A-F in radix 16
RadixDigits(radix) == IF radix = 16 THEN Digits \cup (97..102) \cup (65..70) ELSE Digits

DigitValue(c) == IF c \in Digits THEN c - 48 ELSE IF c \in Lower THEN c - 87 ELSE c - 55

\* the value of a string of digits in a radix
RECURSIVE ParseDigits(_, _)
ParseDigits(s, radix) ==
  IF Len(s) = 0 THEN 0
  ELSE radix * ParseDigits(SubSeq(s, 1, Len(s) - 1), radix) + DigitValue(s[Len(s)])

\* the longest prefix of s made of digits of the radix
RECURSIVE LeadingDigits(_, _)
LeadingDigits(s, radix) ==
  IF Len(s) = 0 \/ s[1] \notin RadixDigits(radix) THEN <<>>
  ELSE <<s[1]>> \o LeadingDigits(Tail(s), radix)

\* s without its leading white space
RECURSIVE TrimStart(_)
TrimStart(s) == IF Len(s) > 0 /\ s[1] \in SpaceChars THEN TrimStart(Tail(s)) ELSE s

\* parseInt(string): leading white space is skipped, then a sign, then 0x or
\* 0X selects radix 16, then the digits up to the first other character;
\* NaN when there is no digit
ParseInt(string) ==
  LET s == TrimStart(string)
      negative == Len(s) > 0 /\ s[1] = 45
      unsigned == IF Len(s) > 0 /\ s[1] \in {43, 45} THEN Tail(s) ELSE s
      hex == Len(unsigned) >= 2 /\ unsigned[1] = 48 /\ unsigned[2] \in {120, 88}
      radix == IF hex THEN 16 ELSE 10
      z == LeadingDigits(IF hex THEN SubSeq(unsigned, 3, Len(unsigned)) ELSE unsigned, radix)
  IN IF Len(z) = 0 THEN NaN
     ELSE Num(IF negative THEN 0 - ParseDigits(z, radix) ELSE ParseDigits(z, radix))

DigitChar(d) == 48 + d

\* String(n) for a natural number
RECURSIVE NatToString(_)
NatToString(n) ==
  IF n < 10 THEN <<DigitChar(n)>> ELSE Append(NatToString(n \div 10), DigitChar(n % 10))

\* StringOf of a string or of an integer, as parseInt applies it to its argument
StringOf(v) ==
  IF v.t = "string" THEN v.s
  ELSE IF v.nan THEN Codes("NaN")
  ELSE IF v.n < 0 THEN <<45>> \o NatToString(0 - v.n)
  ELSE NatToString(v.n)

(* ------------------------------ responses ------------------------------ *)
\* the head of a response as put on the wire
NoHead == [statusCode |-> 0, type |-> "", disposition |-> <<>>]

NoBody == [kind |-> "none"]
BinaryBody == [kind |-> "binary"]
ErrorBody(msg, withDetails) == [kind |-> "error", error |-> msg, details |-> withDetails]
SuccessBody(payload) == [kind |-> "success", success |-> TRUE, payload |-> payload]

\* a fresh Express response object
NewResponse ==
  [statusCode |-> 200,
   type |-> "", disposition |-> <<>>,
   headersSent |-> FALSE, sent |-> NoHead,
   body |-> NoBody, chunks |-> 0, finished |-> FALSE,
   starts |-> 0, lateJson |-> FALSE]

\* res.status(code)
Status(res, code) == [res EXCEPT !.statusCode = code]

\* flushing the head: what the client receives as status line and headers
SendHead(res) ==
  IF res.headersSent THEN res
  ELSE [res EXCEPT !.headersSent = TRUE,
                   !.starts = @ + 1,
                   !.sent = [statusCode |-> res.statusCode, type |-> res.type,
                             disposition |-> res.disposition]]

\* res.json(body): keeps an already set Content-Type; on a response whose
\* head is out nothing more can be set, which is recorded in lateJson
Json(res, body) ==
  IF res.headersSent THEN [res EXCEPT !.lateJson = TRUE]
  ELSE [SendHead([res EXCEPT !.type = IF res.type = "" THEN "application/json" ELSE res.type])
          EXCEPT !.body = body, !.finished = TRUE]

\* one chunk written by videoStream.pipe(res)
WriteChunk(res) == [SendHead(res) EXCEPT !.body = BinaryBody, !.chunks = @ + 1]

\* res.end() issued by the pipe when the source ends
End(res) == [SendHead(res) EXCEPT !.finished = TRUE,
                                  !.body = IF res.chunks = 0 THEN NoBody ELSE BinaryBody]

\* res.send(Buffer)
Send(res) == [SendHead(res) EXCEPT !.body = BinaryBody, !.chunks = @ + 1, !.finished = TRUE]

(* the exchange completed by the latest step, if that step completed one *)
NoExchange == [ep |-> "none"]
Exchange(ep, body, called, upstream, raised, locals, res) ==
  [ep |-> ep, req |-> body, called |-> called, upstream |-> upstream,
   raised |-> raised, locals |-> locals, res |-> res]

Idle == [pc |-> "idle"]
NoLocals == [has |-> FALSE]
\* what the awaited call (extractor, fetch) came back with
NotCalled == [kind |-> "not-called"]
Rejected == [kind |-> "rejected"]
Resolved(value) == [kind |-> "resolved", value |-> value]

InFlight == Cardinality({i \in 1..4 : <<ytInfo, igInfo, ytDl, igDl>>[i].pc # "idle"})

(* ------------------------- request bodies ------------------------------ *)
YouTubeUrl == Codes("https://www.youtube.com/watch?v=dQw4w9WgXcQ")
InstagramUrl == Codes("https://www.instagram.com/reel/Cx1/")
MediaUrl == Codes("https://cdn.example/v.mp4")

\* values a client may put in a url field
UrlValues ==
  {Undefined, Null, Str(<<>>), Str(Codes("not a url")), Num(42),
   Str(Codes("see instagram.com today")), Arr(1, <<Str(Codes("instagram.com"))>>),
   Str(YouTubeUrl), Str(InstagramUrl)}

\* ytdl.validateURL: parses the link inside a try block, so anything that is
\* not a string with a YouTube host and a video id yields false
ValidateURL(v) == v.t = "string" /\ v.s \in {YouTubeUrl}

(* ------------------------ POST /api/youtube/info ----------------------- *)
\* format objects of ytdl: itag identifies the format
Format(itag, qualityLabel, quality, container, contentLength, hasAudio, hasVideo) ==
  [itag |-> itag, qualityLabel |-> qualityLabel, quality |-> quality,
   container |-> container, contentLength |-> contentLength,
   hasAudio |-> hasAudio, hasVideo |-> hasVideo]

FormatPool ==
  {Format(37, Str(Codes("1080p")), Str(Codes("hd1080")), "mp4", Str(Codes("15728640")), TRUE, TRUE),
   Format(22, Str(Codes("720p")), Str(Codes("hd720")), "mp4", Num(10485760), TRUE, TRUE),
   Format(45, Str(Codes("720p")), Str(Codes("hd720")), "webm", Undefined, TRUE, TRUE),
   Format(298, Str(Codes("720p60")), Str(Codes("hd720")), "mp4", Str(Codes("0x180000")), TRUE, TRUE),
   Format(18, Str(Codes("360p")), Str(Codes("medium")), "mp4", Str(Codes(" 3670016")), TRUE, TRUE),
   Format(91, Null, Str(Codes("small")), "ts", Str(Codes("n/a")), TRUE, TRUE),
   Format(0, Null, Undefined, "mp4", Undefined, TRUE, TRUE),
   Format(140, Null, Str(Codes("tiny")), "mp4", Str(Codes("524288")), TRUE, FALSE)}

\* the lists of at most n distinct formats
RECURSIVE FormatLists(_)
FormatLists(n) ==
  IF n = 0 THEN {<<>>}
  ELSE LET shorter == FormatLists(n - 1)
       IN shorter \cup {Append(l, f) : l \in shorter, f \in FormatPool}

Distinct(l) == \A i, j \in 1..Len(l) : i # j => l[i].itag # l[j].itag

Info(thumbnails, formats) ==
  [kind |-> "info", title |-> "Clip", thumbnails |-> thumbnails,
   lengthSeconds |-> "212", author |-> "Uploader", formats |-> formats]

\* what ytdl.getInfo may resolve to, with at most n formats
InfoResults(n) ==
  {Info(<<"small.jpg", "large.jpg">>, l) : l \in {x \in FormatLists(n) : Distinct(x)}}
    \cup {Info(<<>>, l) : l \in {x \in FormatLists(1) : Distinct(x)}}

\* the 'videoandaudio' filter of ytdl
VideoAndAudio(f) == f.hasVideo /\ f.hasAudio

\* ytdl.filterFormats(formats, 'videoandaudio')
RECURSIVE FilterFormats(_)
FilterFormats(formats) ==
  IF Len(formats) = 0 THEN <<>>
  ELSE (IF VideoAndAudio(formats[1]) THEN <<formats[1]>> ELSE <<>>)
         \o FilterFormats(Tail(formats))

\* (bytes / (1024 * 1024)).toFixed(2): "NaN" for NaN, a minus sign for a
\* negative number, the magnitude rounded to hundredths, halves upwards
ToFixed2(bytes) ==
  IF bytes.nan THEN Codes("NaN")
  ELSE LET x == IF bytes.n < 0 THEN 0 - bytes.n ELSE bytes.n
           h == (x * 100 + 524288) \div 1048576
       IN (IF bytes.n < 0 THEN <<45>> ELSE <<>>)
            \o NatToString(h \div 100)
            \o <<46, DigitChar((h % 100) \div 10), DigitChar(h % 10)>>

\* the quality option built from one format
ToQuality(f) ==
  [itag |-> f.itag,
   quality |-> Or(f.qualityLabel, f.quality),
   format |-> f.container,
   size |-> IF Truthy(f.contentLength)
            THEN ToFixed2(ParseInt(StringOf(f.contentLength))) \o Codes(" MB")
            ELSE Codes("Unknown"),
   hasAudio |-> f.hasAudio,
   hasVideo |-> f.hasVideo]

Qualities(formats) == [i \in 1..Len(formats) |-> ToQuality(formats[i])]

\* a filter that compares with the last index of the label
FindLastIndex(self, quality) ==
  CHOOSE i \in 1..Len(self) :
    /\ StrictEq(self[i].quality, quality.quality)
    /\ \A j \in (i + 1)..Len(self) : ~StrictEq(self[j].quality, quality.quality)

RECURSIVE UniqueLastFrom(_, _)
UniqueLastFrom(self, index) ==
  IF index > Len(self) THEN <<>>
  ELSE (IF index = FindLastIndex(self, self[index]) THEN <<self[index]>> ELSE <<>>)
         \o UniqueLastFrom(self, index + 1)

UniqueQualitiesLast(qualities) == UniqueLastFrom(qualities, 1)

\* self.findIndex(q => q.quality === quality.quality); the element itself matches
FindIndex(self, quality) ==
  CHOOSE i \in 1..Len(self) :
    /\ StrictEq(self[i].quality, quality.quality)
    /\ \A j \in 1..(i - 1) : ~StrictEq(self[j].quality, quality.quality)

\* qualities.filter((quality, index, self) => index === self.findIndex(...))
RECURSIVE UniqueFrom(_, _)
UniqueFrom(self, index) ==
  IF index > Len(self) THEN <<>>
  ELSE (IF index = FindIndex(self, self[index]) THEN <<self[index]>> ELSE <<>>)
         \o UniqueFrom(self, index + 1)

UniqueQualities(qualities) == UniqueFrom(qualities, 1)

\* q.quality.match(/(\d+)p/): the end of the digit run that starts at i
RECURSIVE RunEnd(_, _)
RunEnd(s, i) ==
  IF i < Len(s) /\ s[i + 1] \in Digits THEN RunEnd(s, i + 1) ELSE i

\* positions where /(\d+)p/ matches: a digit whose run is followed by p
MatchStarts(s) ==
  {i \in 1..Len(s) : /\ s[i] \in Digits
                     /\ RunEnd(s, i) < Len(s)
                     /\ s[RunEnd(s, i) + 1] = 112}

Min(S) == CHOOSE x \in S : \A y \in S : x <= y

\* getResolution(q) for a string label
GetResolution(q) ==
  LET s == q.quality.s
  IN IF MatchStarts(s) = {} THEN 0
     ELSE LET i == Min(MatchStarts(s)) IN ParseInt(SubSeq(s, i, RunEnd(s, i))).n

\* q.quality.match is a TypeError when the label is undefined or null
HasMatch(q) == q.quality.t = "string"

\* the comparator of the sort
Compare(a, b) == GetResolution(b) - GetResolution(a)

\* Array.prototype.sort is stable: x goes after everything not ordered after it
RECURSIVE Insert(_, _)
Insert(sorted, x) ==
  IF Len(sorted) = 0 THEN <<x>>
  ELSE IF Compare(sorted[1], x) <= 0 THEN <<sorted[1]>> \o Insert(Tail(sorted), x)
  ELSE <<x>> \o sorted

RECURSIVE SortQualities(_)
SortQualities(l) ==
  IF Len(l) <= 1 THEN l
  ELSE Insert(SortQualities(SubSeq(l, 1, Len(l) - 1)), l[Len(l)])

\* the comparator runs on every element once there are two of them
SortThrows(l) == Len(l) >= 2 /\ \E i \in 1..Len(l) : ~HasMatch(l[i])

NoPayload == [none |-> TRUE]

\* the synchronous code after await ytdl.getInfo(url), up to the call of res.json:
\* the argument of res.json is evaluated (thumbnail, then the sort) before the call.
\* The sort is in place: it reorders the array the filter returned, and the
\* payload's qualities is that same array.  locals.deduplicated is what the
\* filter returned (line 45); locals.uniqueQualities is the array when the
\* segment ends: sorted once the sort has run, as the filter left it when the
\* thumbnail lookup threw before the sort or the comparator threw (the sort
\* works on a copy and writes back when it is done)
YtInfoBuild(info) ==
  LET formats == FilterFormats(info.formats)
      qualities == Qualities(formats)
      deduplicated == UniqueQualities(qualities)
      raised == Len(info.thumbnails) = 0 \/ SortThrows(deduplicated)
      uniqueQualities == IF raised THEN deduplicated ELSE SortQualities(deduplicated)
      locals == [has |-> TRUE, formats |-> formats, qualities |-> qualities,
                 deduplicated |-> deduplicated, uniqueQualities |-> uniqueQualities]
  IN IF raised
     THEN [raised |-> TRUE, locals |-> locals, payload |-> NoPayload]
     ELSE [raised |-> FALSE, locals |-> locals,
           payload |-> [title |-> info.title,
                        thumbnail |-> info.thumbnails[Len(info.thumbnails)],
                        duration |-> info.lengthSeconds,
                        author |-> info.author,
                        qualities |-> uniqueQualities]]

YtInfoCatch(res) ==
  Json(Status(res, 500), ErrorBody("Failed to fetch video information", TRUE))

\* a handler that sends the payload before the sort has run
YtInfoFinishEager(res, info) ==
  LET b == YtInfoBuild(info)
      early == Json(res, SuccessBody([title |-> info.title, qualities |-> b.locals.deduplicated]))
  IN IF Len(info.thumbnails) = 0 THEN YtInfoCatch(res)
     ELSE IF b.raised THEN YtInfoCatch(early)
     ELSE Json(res, SuccessBody(b.payload))

\* try { ... res.json({success: true, ...}) } catch { res.status(500).json(...) }
YtInfoFinish(res, info) ==
  LET b == YtInfoBuild(info)
  IN IF b.raised THEN YtInfoCatch(res) ELSE Json(res, SuccessBody(b.payload))

InfoBodies == {[url |-> u] : u \in UrlValues}

YtInfoReceive(body) ==
  /\ ytInfo.pc = "idle"
  /\ InFlight < MaxInFlight
  /\ IF ~Truthy(body.url) \/ ~ValidateURL(body.url)
     THEN /\ done' = Exchange("youtube/info", body, FALSE, NotCalled, FALSE, NoLocals,
                               Json(Status(NewResponse, 400), ErrorBody("Invalid YouTube URL", FALSE)))
          /\ UNCHANGED ytInfo
     ELSE /\ ytInfo' = [pc |-> "getInfo", body |-> body, res |-> NewResponse]
          /\ done' = NoExchange
  /\ UNCHANGED <<igInfo, ytDl, igDl>>

YtInfoRejected ==
  /\ ytInfo.pc = "getInfo"
  /\ done' = Exchange("youtube/info", ytInfo.body, TRUE, Rejected, TRUE, NoLocals,
                      YtInfoCatch(ytInfo.res))
  /\ ytInfo' = Idle
  /\ UNCHANGED <<igInfo, ytDl, igDl>>

YtInfoResolved(info) ==
  /\ ytInfo.pc = "getInfo"
  /\ LET b == YtInfoBuild(info)
     IN done' = Exchange("youtube/info", ytInfo.body, TRUE, Resolved(info), b.raised, b.locals,
                         YtInfoFinish(ytInfo.res, info))
  /\ ytInfo' = Idle
  /\ UNCHANGED <<igInfo, ytDl, igDl>>

(* ----------------------- POST /api/instagram/info ---------------------- *)
\* url.includes exists on strings and arrays only
HasIncludes(v) == v.t \in {"string", "array"}

\* url.includes('instagram.com'): a substring of a string, an element of an array
Includes(v, needle) ==
  IF v.t = "string" THEN StringIncludes(v.s, needle)
  ELSE \E i \in 1..Len(v.a) : StrictEq(v.a[i], Str(needle))

StreamUrl(i) == Codes("https://cdn.example/") \o NatToString(i) \o Codes(".mp4")

Result(url_list, thumbnail) ==
  [t |-> "object", ref |-> 0, url_list |-> url_list, thumbnail |-> thumbnail]

\* what instagramGetUrl may resolve to
IgResults ==
  {Null, Undefined}
    \cup {Result(l, th) :
            l \in {Undefined, Str(StreamUrl(1))}
                   \cup {Arr(1, [i \in 1..n |-> Str(StreamUrl(i))]) : n \in 0..MaxUrls},
            th \in {Undefined, Str(Codes("https://cdn.example/thumb.jpg"))}}

\* index === 0 ? '1080p (Full HD)' : index === 1 ? '720p (HD)' : '480p'
IgLabel(index) ==
  IF index = 0 THEN "1080p (Full HD)" ELSE IF index = 1 THEN "720p (HD)" ELSE "480p"

\* result.url_list.map((urlItem, index) => ({...})); sequences start at 1
IgQualities(url_list) ==
  [i \in 1..Len(url_list) |->
     [url |-> url_list[i], quality |-> IgLabel(i - 1), format |-> "mp4", size |-> "Unknown"]]

\* result.url_list[0]
First(url_list) == IF Len(url_list) = 0 THEN Undefined ELSE url_list[1]

IgInfoCatch(res) ==
  Json(Status(res, 500), ErrorBody("Failed to fetch Instagram video", TRUE))

\* the code after await instagramGetUrl(url)
IgInfoFinish(res, result) ==
  IF ~Truthy(result) \/ ~Truthy(result.url_list)
  THEN Json(Status(res, 404), ErrorBody("Could not fetch Instagram video", FALSE))
  ELSE IF result.url_list.t # "array" THEN IgInfoCatch(res)
  ELSE Json(res, SuccessBody([thumbnail |-> Or(result.thumbnail, First(result.url_list.a)),
                              qualities |-> IgQualities(result.url_list.a)]))

\* whether that code throws: url_list has no map method
IgInfoRaises(result) ==
  Truthy(result) /\ Truthy(result.url_list) /\ result.url_list.t # "array"

IgInfoReceive(body) ==
  /\ igInfo.pc = "idle"
  /\ InFlight < MaxInFlight
  /\ IF ~Truthy(body.url)
     THEN /\ done' = Exchange("instagram/info", body, FALSE, NotCalled, FALSE, NoLocals,
                               Json(Status(NewResponse, 400), ErrorBody("Invalid Instagram URL", FALSE)))
          /\ UNCHANGED igInfo
     ELSE IF ~HasIncludes(body.url)
     THEN /\ done' = Exchange("instagram/info", body, FALSE, NotCalled, TRUE, NoLocals,
                               IgInfoCatch(NewResponse))
          /\ UNCHANGED igInfo
     ELSE IF ~Includes(body.url, Codes("instagram.com"))
     THEN /\ done' = Exchange("instagram/info", body, FALSE, NotCalled, FALSE, NoLocals,
                               Json(Status(NewResponse, 400), ErrorBody("Invalid Instagram URL", FALSE)))
          /\ UNCHANGED igInfo
     ELSE /\ igInfo' = [pc |-> "instagramGetUrl", body |-> body, res |-> NewResponse]
          /\ done' = NoExchange
  /\ UNCHANGED <<ytInfo, ytDl, igDl>>

IgInfoRejected ==
  /\ igInfo.pc = "instagramGetUrl"
  /\ done' = Exchange("instagram/info", igInfo.body, TRUE, Rejected, TRUE, NoLocals,
                      IgInfoCatch(igInfo.res))
  /\ igInfo' = Idle
  /\ UNCHANGED <<ytInfo, ytDl, igDl>>

IgInfoResolved(result) ==
  /\ igInfo.pc = "instagramGetUrl"
  /\ done' = Exchange("instagram/info", igInfo.body, TRUE, Resolved(result), IgInfoRaises(result),
                      NoLocals, IgInfoFinish(igInfo.res, result))
  /\ igInfo' = Idle
  /\ UNCHANGED <<ytInfo, ytDl, igDl>>

(* ---------------------- POST /api/youtube/download --------------------- *)
\* titles ytdl.getInfo may report: plain ones, ones with punctuation, a
\* letter outside ASCII (U+00E9), a line feed, a vertical tab, a no-break
\* space (U+00A0) and an ideographic space (U+3000)
TitleSet ==
  {<<>>, Codes("My Video"), Codes("clip_01"), Codes("Tom & Jerry!"), Codes("A/B: test?"),
   Codes("caf") \o <<233>>,
   Codes("two") \o <<10>> \o Codes("lines"),
   Codes("a") \o <<11>> \o Codes("b"),
   Codes("a") \o <<160>> \o Codes("b"),
   Codes("a") \o <<12288>> \o Codes("b")}

\* a replace without the g flag: only the first match goes
RECURSIVE SanitizeFirst(_)
SanitizeFirst(title) ==
  IF Len(title) = 0 THEN <<>>
  ELSE IF title[1] \in WordChars \cup SpaceChars
       THEN <<title[1]>> \o SanitizeFirst(Tail(title))
       ELSE Tail(title)

\* title.replace(/[^\w\s]/gi, ''): every code unit outside \w and \s goes
RECURSIVE Sanitize(_)
Sanitize(title) ==
  IF Len(title) = 0 THEN <<>>
  ELSE (IF title[1] \in WordChars \cup SpaceChars THEN <<title[1]>> ELSE <<>>)
         \o Sanitize(Tail(title))

\* `attachment; filename="${title}.mp4"`
DispositionPrefix == Codes("attachment; filename=\"")
DispositionFor(name) == DispositionPrefix \o name \o Codes("\"")

\* Node refuses a header value with a code unit outside tab, U+0020..U+007E
\* and U+0080..U+00FF
InvalidHeaderChars == (0..8) \cup (10..31) \cup {127} \cup (256..65535)
HeaderValueOk(v) == \A i \in 1..Len(v) : v[i] \notin InvalidHeaderChars

YtDlCatch(res) ==
  IF ~res.headersSent
  THEN Json(Status(res, 500), ErrorBody("Failed to download video", TRUE))
  ELSE res

\* an 'error' listener that answers whatever the state of the response
OnStreamErrorUnguarded(res) ==
  Json(Status(res, 500), ErrorBody("Download failed", TRUE))

\* videoStream.on('error', ...)
OnStreamError(res) ==
  IF ~res.headersSent
  THEN Json(Status(res, 500), ErrorBody("Download failed", TRUE))
  ELSE res

YtDlBodies == {[url |-> u, itag |-> i] : u \in UrlValues, i \in {Undefined, Num(18)}}

YtDlReceive(body) ==
  /\ ytDl.pc = "idle"
  /\ InFlight < MaxInFlight
  /\ IF ~Truthy(body.url) \/ ~ValidateURL(body.url)
     THEN /\ done' = Exchange("youtube/download", body, FALSE, NotCalled, FALSE, NoLocals,
                               Json(Status(NewResponse, 400), ErrorBody("Invalid YouTube URL", FALSE)))
          /\ UNCHANGED ytDl
     ELSE /\ ytDl' = [pc |-> "getInfo", body |-> body, title |-> <<>>, raised |-> FALSE,
                      res |-> NewResponse]
          /\ done' = NoExchange
  /\ UNCHANGED <<ytInfo, igInfo, igDl>>

YtDlRejected ==
  /\ ytDl.pc = "getInfo"
  /\ done' = Exchange("youtube/download", ytDl.body, TRUE, Rejected, TRUE, NoLocals,
                      YtDlCatch(ytDl.res))
  /\ ytDl' = Idle
  /\ UNCHANGED <<ytInfo, igInfo, igDl>>

\* the code after await ytdl.getInfo(url): both headers, the stream, the pipe
\* and the listener; a refused header value throws into the catch block
YtDlResolved(rawTitle) ==
  /\ ytDl.pc = "getInfo"
  /\ LET title == Sanitize(rawTitle)
         disposition == DispositionFor(title \o Codes(".mp4"))
     IN IF ~HeaderValueOk(disposition)
        THEN /\ done' = Exchange("youtube/download", ytDl.body, TRUE,
                                  Resolved(rawTitle), TRUE, NoLocals,
                                  YtDlCatch(ytDl.res))
             /\ ytDl' = Idle
        ELSE /\ ytDl' = [ytDl EXCEPT !.pc = "piping",
                                      !.title = rawTitle,
                                      !.res = [@ EXCEPT !.disposition = disposition,
                                                        !.type = "video/mp4"]]
             /\ done' = NoExchange
  /\ UNCHANGED <<ytInfo, igInfo, igDl>>

\* the stream delivers data and the pipe writes it to the response
YtDlData ==
  /\ ytDl.pc = "piping"
  /\ ytDl.res.chunks < MaxChunks
  /\ ytDl' = [ytDl EXCEPT !.res = WriteChunk(@)]
  /\ done' = NoExchange
  /\ UNCHANGED <<ytInfo, igInfo, igDl>>

\* the stream ends and the pipe ends the response
YtDlEnd ==
  /\ ytDl.pc = "piping"
  /\ done' = Exchange("youtube/download", ytDl.body, TRUE,
                      Resolved(ytDl.title), FALSE, NoLocals, End(ytDl.res))
  /\ ytDl' = Idle
  /\ UNCHANGED <<ytInfo, igInfo, igDl>>

\* the stream emits 'error': the listener runs; the pipe does not end the
\* response, so unless the listener answered the response stays open
YtDlError ==
  /\ ytDl.pc = "piping"
  /\ LET res == OnStreamError(ytDl.res)
     IN IF res.finished
        THEN /\ done' = Exchange("youtube/download", ytDl.body, TRUE,
                                  Resolved(ytDl.title), TRUE, NoLocals, res)
             /\ ytDl' = Idle
        ELSE /\ ytDl' = [ytDl EXCEPT !.pc = "stalled", !.raised = TRUE, !.res = res]
             /\ done' = NoExchange
  /\ UNCHANGED <<ytInfo, igInfo, igDl>>

(* --------------------- POST /api/instagram/download -------------------- *)
IgFilename == Codes("instagram_video.mp4")

\* fetch rejects a string that is no absolute URL without sending anything
WellFormedUrl(v) == v.t = "string" /\ v.s \in {MediaUrl, YouTubeUrl, InstagramUrl}

IgDlBodies ==
  {[url |-> u, qualityUrl |-> q] :
     u \in {Undefined, Str(InstagramUrl)},
     q \in {Undefined, Str(<<>>), Str(Codes("not a url")), Num(42), Str(MediaUrl)}}

IgDlCatch(res) ==
  Json(Status(res, 500), ErrorBody("Failed to download video", TRUE))

IgDlReceive(body) ==
  /\ igDl.pc = "idle"
  /\ InFlight < MaxInFlight
  /\ IF ~Truthy(body.qualityUrl)
     THEN /\ done' = Exchange("instagram/download", body, FALSE, NotCalled, FALSE, NoLocals,
                               Json(Status(NewResponse, 400), ErrorBody("Quality URL is required", FALSE)))
          /\ UNCHANGED igDl
     ELSE /\ igDl' = [pc |-> "fetch", body |-> body, res |-> NewResponse]
          /\ done' = NoExchange
  /\ UNCHANGED <<ytInfo, igInfo, ytDl>>

\* await fetch(qualityUrl) throws: a malformed URL or a network failure
IgDlFetchRejected ==
  /\ igDl.pc = "fetch"
  /\ done' = Exchange("instagram/download", igDl.body, TRUE, Rejected, TRUE, NoLocals,
                      IgDlCatch(igDl.res))
  /\ igDl' = Idle
  /\ UNCHANGED <<ytInfo, igInfo, ytDl>>

\* fetch resolves; if (!response.ok) throw new Error('Failed to fetch video')
IgDlFetchResolved(ok) ==
  /\ igDl.pc = "fetch"
  /\ WellFormedUrl(igDl.body.qualityUrl)
  /\ IF ok
     THEN /\ igDl' = [igDl EXCEPT !.pc = "arrayBuffer"]
          /\ done' = NoExchange
     ELSE /\ done' = Exchange("instagram/download", igDl.body, TRUE,
                               Resolved([ok |-> FALSE]), TRUE, NoLocals,
                               IgDlCatch(igDl.res))
          /\ igDl' = Idle
  /\ UNCHANGED <<ytInfo, igInfo, ytDl>>

\* await response.arrayBuffer() resolves: both headers, then res.send
IgDlBuffered ==
  /\ igDl.pc = "arrayBuffer"
  /\ done' = Exchange("instagram/download", igDl.body, TRUE,
                      Resolved([ok |-> TRUE]), FALSE, NoLocals,
                      Send([igDl.res EXCEPT !.disposition = DispositionFor(IgFilename),
                                            !.type = "video/mp4"]))
  /\ igDl' = Idle
  /\ UNCHANGED <<ytInfo, igInfo, ytDl>>

\* await response.arrayBuffer() throws: the body could not be read
IgDlBufferFailed ==
  /\ igDl.pc = "arrayBuffer"
  /\ done' = Exchange("instagram/download", igDl.body, TRUE,
                      Resolved([ok |-> TRUE]), TRUE, NoLocals,
                      IgDlCatch(igDl.res))
  /\ igDl' = Idle
  /\ UNCHANGED <<ytInfo, igInfo, ytDl>>

(* ------------------------------ GET /health ---------------------------- *)
HealthBody == [kind |-> "health", status |-> "OK", message |-> "Video Downloader API is running"]

\* a health route that reports the state of the download route
HealthFinishBusy(res) ==
  IF ytDl.pc = "stalled"
  THEN Json(Status(res, 503), [HealthBody EXCEPT !.status = "BUSY"])
  ELSE Json(res, HealthBody)

\* res.json({ status: 'OK', message: ... })
HealthFinish(res) == Json(res, HealthBody)

Health ==
  /\ done' = Exchange("health", [none |-> TRUE], FALSE, NotCalled, FALSE, NoLocals,
                      HealthFinish(NewResponse))
  /\ UNCHANGED <<ytInfo, igInfo, ytDl, igDl>>

(* ---------------------------- specifications --------------------------- *)
Init ==
  /\ ytInfo = Idle
  /\ igInfo = Idle
  /\ ytDl = Idle
  /\ igDl = Idle
  /\ done = NoExchange

InfoResultsListed == InfoResults(MaxListed)
InfoResultsDeep == InfoResults(MaxFormats)

YtInfoRoute ==
  \/ \E body \in InfoBodies : YtInfoReceive(body)
  \/ YtInfoRejected
  \/ \E info \in InfoResultsListed : YtInfoResolved(info)

IgInfoRoute ==
  \/ \E body \in InfoBodies : IgInfoReceive(body)
  \/ IgInfoRejected
  \/ \E result \in IgResults : IgInfoResolved(result)

YtDlRoute ==
  \/ \E body \in YtDlBodies : YtDlReceive(body)
  \/ YtDlRejected
  \/ \E title \in TitleSet : YtDlResolved(title)
  \/ YtDlData
  \/ YtDlEnd
  \/ YtDlError

IgDlRoute ==
  \/ \E body \in IgDlBodies : IgDlReceive(body)
  \/ IgDlFetchRejected
  \/ \E ok \in BOOLEAN : IgDlFetchResolved(ok)
  \/ IgDlBuffered
  \/ IgDlBufferFailed

\* the server: all routes, requests overlapping
Next == YtInfoRoute \/ IgInfoRoute \/ YtDlRoute \/ IgDlRoute \/ Health

Spec == Init /\ [][Next]_vars

\* the server when clients use the info routes and the health check only
NextInfo == YtInfoRoute \/ IgInfoRoute \/ Health

SpecInfo == Init /\ [][NextInfo]_vars

\* the YouTube info route alone, with longer format lists
NextQualities ==
  \/ \E body \in InfoBodies : YtInfoReceive(body)
  \/ YtInfoRejected
  \/ \E info \in InfoResultsDeep : YtInfoResolved(info)

SpecQualities == Init /\ [][NextQualities]_vars

\* the server when clients use the download routes and the health check only
NextDownload == YtDlRoute \/ IgDlRoute \/ Health

SpecDownload == Init /\ [][NextDownload]_vars

(* ------------------------------- claims -------------------------------- *)
InfoRoutes == {"youtube/info", "instagram/info"}
DownloadRoutes == {"youtube/download", "instagram/download"}

\* a string that is a page URL of the platform the route serves
PlatformUrl(ep, v) ==
  /\ v.t = "string"
  /\ v.s = (IF ep \in {"youtube/info", "youtube/download"} THEN YouTubeUrl ELSE InstagramUrl)

\* C1: a request whose url is not a URL of the target platform (absent, empty,
\* a non-URL string, a non-string value) gets status 400 from both info
\* routes, and the extractor is not called for it
C1_InvalidUrlIs400 ==
  /\ (done.ep \in InfoRoutes /\ ~PlatformUrl(done.ep, done.req.url))
       => (done.res.sent.statusCode = 400 /\ ~done.called)
  /\ ytInfo.pc = "getInfo" => PlatformUrl("youtube/info", ytInfo.body.url)
  /\ igInfo.pc = "instagramGetUrl" => PlatformUrl("instagram/info", igInfo.body.url)

\* C2: on both info routes, when the extractor fails or a later step of
\* building the response throws, the request ends with exactly one response,
\* a 500 with an error field; no success payload is written
C2_FailureIsOne500 ==
  (done.ep \in InfoRoutes /\ done.called /\ done.raised)
    => /\ done.res.starts = 1
       /\ done.res.finished
       /\ done.res.sent.statusCode = 500
       /\ done.res.body.kind = "error"
       /\ ~done.res.lateJson

\* C2 witness: getInfo resolved, the thumbnail was there, and the sort threw
C2_Witness ==
  /\ done.ep = "youtube/info"
  /\ done.raised
  /\ done.upstream.kind = "resolved"
  /\ Len(done.upstream.value.thumbnails) > 0

\* the resolution the claim speaks of: the leading integer of the label,
\* none (-1) for a label that is missing or does not start with a number
LeadingInteger(label) ==
  IF label.t = "string" /\ Len(LeadingDigits(label.s, 10)) > 0
  THEN ParseDigits(LeadingDigits(label.s, 10), 10)
  ELSE -1

Position(l, itag) == CHOOSE i \in 1..Len(l) : l[i].itag = itag

\* C3: for every list of formats the qualities of the YouTube info response
\* are sorted by descending leading integer of the label, labels that are
\* missing or have no number come last, and ties keep the deduplicated order
C3_SortedByLeadingInteger ==
  (/\ done.ep = "youtube/info"
   /\ done.upstream.kind = "resolved"
   /\ Len(done.upstream.value.thumbnails) > 0)
    => /\ done.res.body.kind = "success"
       /\ LET q == done.res.body.payload.qualities
              u == done.locals.deduplicated
          IN /\ Len(q) = Len(u)
             /\ \A k \in 1..Len(u) : \E i \in 1..Len(q) : q[i].itag = u[k].itag
             /\ \A i, j \in 1..Len(q) :
                  i < j => /\ LeadingInteger(q[i].quality) >= LeadingInteger(q[j].quality)
                           /\ (LeadingInteger(q[i].quality) = LeadingInteger(q[j].quality)
                                 => Position(u, q[i].itag) < Position(u, q[j].itag))

SameLabel(a, b) == StrictEq(a.quality, b.quality)

\* C4: deduplication keeps, for each label, exactly the first option that
\* carries it, in the order of the input list: no label twice in the result,
\* every input label exactly once
C4_DedupKeepsFirst ==
  (done.ep = "youtube/info" /\ done.locals.has)
    => LET q == done.locals.qualities
           u == done.locals.deduplicated
           firsts == {i \in 1..Len(q) : \A j \in 1..(i - 1) : ~SameLabel(q[j], q[i])}
       IN /\ \A a, b \in 1..Len(u) : a # b => ~SameLabel(u[a], u[b])
          /\ \A i \in 1..Len(q) : Cardinality({k \in 1..Len(u) : SameLabel(u[k], q[i])}) = 1
          /\ Len(u) = Cardinality(firsts)
          /\ \A i \in firsts : u[Cardinality({j \in firsts : j <= i})].itag = q[i].itag

\* C4 witness: a list with a repeated label was deduplicated, and two labels remain
C4_Witness ==
  /\ done.ep = "youtube/info"
  /\ done.locals.has
  /\ Len(done.locals.deduplicated) < Len(done.locals.qualities)
  /\ Len(done.locals.deduplicated) >= 2

\* the responses of the download routes: those being streamed and the one just completed
DownloadResponses ==
  (IF ytDl.pc # "idle" THEN {ytDl.res} ELSE {})
    \cup (IF igDl.pc # "idle" THEN {igDl.res} ELSE {})
    \cup (IF done.ep \in DownloadRoutes THEN {done.res} ELSE {})

\* the response carries video: bytes were written, or it went out with status 200
StreamsVideo(res) == res.chunks > 0 \/ (res.headersSent /\ res.sent.statusCode = 200)

Quote == DispositionPrefix[Len(DispositionPrefix)]

\* the filename of a Content-Disposition value: what stands between the quotes
Filename(disposition) == SubSeq(disposition, Len(DispositionPrefix) + 1, Len(disposition) - 1)

IsAttachment(disposition) ==
  /\ Len(disposition) > Len(DispositionPrefix)
  /\ SubSeq(disposition, 1, Len(DispositionPrefix)) = DispositionPrefix
  /\ disposition[Len(disposition)] = Quote

\* special characters: everything but the letters a-z and A-Z, the digits,
\* the underscore and white space
Special(c) == c \notin WordChars \cup SpaceChars

\* name is title with every special character removed, followed by .mp4
StrippedTitle(name, title) ==
  LET kept == {i \in 1..Len(title) : ~Special(title[i])}
      stem == SubSeq(name, 1, Len(name) - 4)
  IN /\ Len(name) = Cardinality(kept) + 4
     /\ SubSeq(name, Len(name) - 3, Len(name)) = Codes(".mp4")
     /\ \A i \in kept : stem[Cardinality({j \in kept : j <= i})] = title[i]
     /\ \A i \in 1..Len(stem) : ~Special(stem[i])

VideoHead(res) ==
  /\ res.headersSent
  /\ res.sent.type = "video/mp4"
  /\ IsAttachment(res.sent.disposition)

\* C5: every download response that streams video went out with Content-Type
\* video/mp4 and a Content-Disposition attachment header; on the YouTube route
\* the filename is the title with every special character removed plus .mp4,
\* on the Instagram route it is instagram_video.mp4; the head precedes the bytes
C5_VideoHeaders ==
  /\ (ytDl.pc # "idle" /\ StreamsVideo(ytDl.res))
       => /\ VideoHead(ytDl.res)
          /\ StrippedTitle(Filename(ytDl.res.sent.disposition), ytDl.title)
  /\ (done.ep = "youtube/download" /\ StreamsVideo(done.res))
       => /\ VideoHead(done.res)
          /\ StrippedTitle(Filename(done.res.sent.disposition), done.upstream.value)
  /\ (done.ep = "instagram/download" /\ StreamsVideo(done.res))
       => /\ VideoHead(done.res)
          /\ Filename(done.res.sent.disposition) = Codes("instagram_video.mp4")

\* C5 witness: bytes of a video whose title holds several special characters are out
C5_Witness ==
  /\ ytDl.pc = "piping"
  /\ ytDl.res.chunks > 0
  /\ Cardinality({i \in 1..Len(ytDl.title) : Special(ytDl.title[i])}) >= 2

\* a result without a usable stream: none, no url_list, or an empty one
NoUsableStream(result) ==
  \/ ~Truthy(result)
  \/ ~Truthy(result.url_list)
  \/ (result.url_list.t = "array" /\ Len(result.url_list.a) = 0)

\* C6: the Instagram info route answers 404 whenever the extractor returns no
\* usable stream (no result, no url_list, an empty url_list); a 200 success is
\* sent only with at least one stream among the qualities
C6_NoStreamIs404 ==
  (done.ep = "instagram/info" /\ done.upstream.kind = "resolved")
    => /\ NoUsableStream(done.upstream.value) => done.res.sent.statusCode = 404
       /\ done.res.sent.statusCode = 200 => Len(done.res.body.payload.qualities) >= 1

\* C7: on both download routes a missing or malformed source URL is answered
\* with 400 before the extractor is called or the media is fetched; on the
\* Instagram route that covers a missing url and a malformed qualityUrl
C7_BadSourceIs400 ==
  /\ (done.ep = "youtube/download" /\ ~PlatformUrl(done.ep, done.req.url))
       => (done.res.sent.statusCode = 400 /\ ~done.called)
  /\ (done.ep = "instagram/download"
        /\ (~PlatformUrl(done.ep, done.req.url) \/ ~WellFormedUrl(done.req.qualityUrl)))
       => (done.res.sent.statusCode = 400 /\ ~done.called)
  /\ ytDl.pc = "getInfo" => PlatformUrl("youtube/download", ytDl.body.url)
  /\ igDl.pc # "idle"
       => (PlatformUrl("instagram/download", igDl.body.url) /\ WellFormedUrl(igDl.body.qualityUrl))

\* C8: the health check answers 200 with status "OK" in every state of the
\* server, whatever the other requests are doing
C8_HealthIsOk ==
  done.ep = "health"
    => /\ done.res.sent.statusCode = 200
       /\ done.res.body.status = "OK"
       /\ done.res.finished
       /\ done.res.starts = 1

\* C8 witness: a health check answered while one download is stuck after a
\* stream error and another is waiting for its media
C8_Witness ==
  /\ done.ep = "health"
  /\ ytDl.pc = "stalled"
  /\ igDl.pc = "arrayBuffer"

\* C9: in the download handlers no JSON error is written on a response whose
\* headers are out, and at most one response is started per request
C9_NoJsonAfterHeaders ==
  \A res \in DownloadResponses : ~res.lateJson /\ res.starts <= 1

\* C9 witness: the stream failed after the head and a chunk had been sent
C9_Witness ==
  /\ ytDl.pc = "stalled"
  /\ ytDl.raised
  /\ ytDl.res.headersSent
  /\ ytDl.res.chunks > 0

\* C10: every error raised while a request is handled, a stream error after
\* streaming began included, ends in a finished failure response {error, details?}
C10_ErrorsEndInFailure ==
  /\ (ytDl.pc # "idle" /\ ytDl.raised)
       => (ytDl.res.finished /\ ytDl.res.body.kind = "error")
  /\ (done.ep # "none" /\ done.raised)
       => (done.res.finished /\ done.res.body.kind = "error")

====
